---------------------------- MODULE Spec2Model ----------------------------
(***************************************************************************)
(* Kernel Matching Pursuit (lightning/kmp.py).                             *)
(*                                                                         *)
(* Numbers are exact rationals <<num, den>> with den > 0 and gcd 1; the    *)
(* IEEE values the code relies on are kept as den = 0: <<-1, 0>> is -inf,  *)
(* <<1, 0>> is +inf and <<0, 0>> is nan.  The dictionaries and targets of  *)
(* the input sets have integer entries and column norms that are powers of *)
(* two, so every value of a line-search run is a dyadic rational of small  *)
(* magnitude, which float64 represents and computes exactly.               *)
(***************************************************************************)
EXTENDS Integers, Sequences, FiniteSets, TLC

VARIABLES
    pc,                 \* where the fit is
    cfg,                \* the constructor's parameters (KMPBase.__init__)
    K,                  \* the dictionary, n rows of m entries
    Y,                  \* the target matrix, n rows of c entries
    norms,              \* the column norms of K
    t_budget,           \* n_nonzero_coefs as resolved by _pre_fit
    components_,        \* the stored components (their indices in the dictionary)
    gens,               \* one _fit_generator frame per target column
    results,            \* what each _fit_last call returned (non-validation path)
    n_iter,             \* the validation loop's counter
    best_score,
    validation_scores,
    training_scores,
    iterations,
    coef_,              \* the stored coefficient matrix
    snaps,              \* history: the stacked coefficient matrix at each checkpoint
    stopped,            \* history: the validation loop left by its break
    err                 \* the exception that ended the fit, "" when none

vars == <<pc, cfg, K, Y, norms, t_budget, components_, gens, results, n_iter,
          best_score, validation_scores, training_scores, iterations, coef_,
          snaps, stopped, err>>

-----------------------------------------------------------------------------
(* Bounds of the model.                                                     *)

\* n_validate is drawn from 1 .. MaxValidate
MaxValidate == 2
\* n_refit is drawn from 0 .. MaxRefit
MaxRefit == 2

-----------------------------------------------------------------------------
(* Exact rational arithmetic.                                               *)

Abs(x) == IF x < 0 THEN -x ELSE x

Sgn(x) == IF x < 0 THEN -1 ELSE IF x > 0 THEN 1 ELSE 0

RECURSIVE GCD(_, _)
GCD(a, b) == IF b = 0 THEN a ELSE GCD(b, a % b)

R(n, d) ==
    IF d = 1 THEN <<n, 1>>
    ELSE IF d = 0 THEN <<Sgn(n), 0>>
    ELSE LET g == GCD(Abs(n), Abs(d))
         IN  <<Sgn(d) * Sgn(n) * (Abs(n) \div g), Abs(d) \div g>>

Rat(i) == <<i, 1>>

Zero == Rat(0)

NegInf == <<-1, 0>>

RAdd(a, b) ==
    IF a[2] = b[2] THEN R(a[1] + b[1], a[2])
    ELSE R(a[1] * b[2] + b[1] * a[2], a[2] * b[2])

RNeg(a) == <<-a[1], a[2]>>

RSub(a, b) == RAdd(a, RNeg(b))

RMul(a, b) == R(a[1] * b[1], a[2] * b[2])

\* float division: x / 0 is an infinity or nan, not an exception
RDiv(a, b) == R(a[1] * b[2] * (IF b[1] < 0 THEN -1 ELSE 1), a[2] * Abs(b[1]))

RAbs(a) == <<Abs(a[1]), a[2]>>

\* a < b; every comparison with nan is false
RLt(a, b) == a[1] * b[2] < b[1] * a[2] /\ a # <<0, 0>> /\ b # <<0, 0>>

RLe(a, b) == a = b \/ RLt(a, b)

-----------------------------------------------------------------------------
(* Vectors (sequences of rationals) and matrices (sequences of rows).       *)

\* an array held by value: its entries are computed once, when it is built
Array(f) == f \o << >>

Idx(m) == Array([j \in 1..m |-> j])

RatVec(v) == Array([k \in 1..Len(v) |-> Rat(v[k])])

RatMat(M) == Array([r \in 1..Len(M) |-> RatVec(M[r])])

ZeroVec(n) == Array([k \in 1..n |-> Zero])

VAdd(u, v) == Array([k \in 1..Len(u) |-> RAdd(u[k], v[k])])

VSub(u, v) == Array([k \in 1..Len(u) |-> RSub(u[k], v[k])])

VScale(a, v) == Array([k \in 1..Len(v) |-> RMul(a, v[k])])

RECURSIVE SumTo(_, _)
SumTo(v, k) == IF k = 0 THEN Zero ELSE RAdd(SumTo(v, k - 1), v[k])

Sum(v) == SumTo(v, Len(v))

Dot(u, v) == Sum(Array([k \in 1..Len(u) |-> RMul(u[k], v[k])]))

Mean(v) == RDiv(Sum(v), Rat(Len(v)))

\* K[:, j]
Col(M, j) == Array([r \in 1..Len(M) |-> M[r][j]])

\* np.dot(M, w) for rows M and a vector w
MatVec(M, w) == Array([r \in 1..Len(M) |-> Dot(M[r], w)])

\* np.sqrt of a perfect square
Sqrt(x) == CHOOSE s \in 0..x : s * s = x

-----------------------------------------------------------------------------
(* The per-subset regressor: sklearn's LinearRegression, the estimator     *)
(* _get_estimator builds when none is given.  fit centers X and y, solves  *)
(* the least-squares problem (lstsq: the minimum-norm solution, which is   *)
(* the pseudo-inverse applied to y) and sets the intercept;                *)
(* decision_function is X . coef_ + intercept_.                            *)

IsZeroVec(v) == \A k \in 1..Len(v) : v[k] = Zero

\* the combination sum_i d[i] * vs[i] of the first k vectors of vs (length n)
RECURSIVE CombTo(_, _, _, _)
CombTo(vs, d, k, n) ==
    IF k = 0 THEN ZeroVec(n) ELSE VAdd(CombTo(vs, d, k - 1, n), VScale(d[k], vs[k]))

\* Greville's step: the pseudo-inverse P of the first k - 1 columns extended
\* by column a, where d = P.a and c = a - A.d is the part of a outside the
\* span of the earlier columns
PinvRow(P, d, c, k, n) ==
    IF ~IsZeroVec(c)
    THEN VScale(RDiv(Rat(1), Dot(c, c)), c)
    ELSE VScale(RDiv(Rat(1), RAdd(Rat(1), Dot(d, d))), CombTo(P, d, k - 1, n))

PinvAppend(P, d, b, k) ==
    Array([i \in 1..k |-> IF i = k THEN b ELSE VSub(P[i], VScale(d[i], b))])

PinvProject(P, cols, d, k, n) ==
    PinvAppend(P, d, PinvRow(P, d, VSub(cols[k], CombTo(cols, d, k - 1, n)), k, n), k)

PinvExtend(P, cols, k, n) ==
    PinvProject(P, cols, Array([i \in 1..(k - 1) |-> Dot(P[i], cols[k])]), k, n)

\* the pseudo-inverse (k rows of length n) of the matrix whose columns are
\* the first k vectors of cols
RECURSIVE PinvTo(_, _, _)
PinvTo(cols, k, n) ==
    IF k = 0 THEN << >> ELSE PinvExtend(PinvTo(cols, k - 1, n), cols, k, n)

\* linalg.lstsq(X, y)[0] for X given by its columns
Lstsq(cols, y) == MatVec(PinvTo(cols, Len(cols), Len(y)), y)

\* LinearRegression().fit(X, y), X given by its columns: coef_ and intercept_
LinearRegressionFit(cols, y) ==
    LET X_mean == Array([j \in 1..Len(cols) |-> Mean(cols[j])])
        y_mean == Mean(y)
        Xc     == Array([j \in 1..Len(cols) |->
                      Array([r \in 1..Len(y) |-> RSub(cols[j][r], X_mean[j])])])
        yc     == Array([r \in 1..Len(y) |-> RSub(y[r], y_mean)])
        w      == Lstsq(Xc, yc)
    IN  [coef_ |-> w, intercept_ |-> RSub(y_mean, Dot(X_mean, w))]

\* estimator.decision_function(X), X given by its columns
EstimatorDecisionFunction(est, cols, n) ==
    Array([r \in 1..n |->
              RAdd(Dot(Array([j \in 1..Len(cols) |-> cols[j][r]]), est.coef_),
                   est.intercept_)])

-----------------------------------------------------------------------------
(* SquaredLoss and the pursuit loop (_fit_generator).                       *)

\* SquaredLoss.negative_gradient
NegativeGradient(y_true, y_pred) == VSub(y_true, y_pred)

\* a line search that divides by the norm instead of the squared norm
LineSearchByNorm(y, y_pred, column) ==
    RDiv(Dot(column, VSub(y, y_pred)), Rat(Sqrt(Dot(column, column)[1])))

\* SquaredLoss.line_search
LineSearch(y, y_pred, column) ==
    LET squared_norm == Dot(column, column)
        residuals    == VSub(y, y_pred)
    IN  RDiv(Dot(column, residuals), squared_norm)

\* np.argmax over the first k entries: the first index holding the maximum
RECURSIVE ArgMaxTo(_, _)
ArgMaxTo(v, k) ==
    IF k = 1 THEN 1
    ELSE LET b == ArgMaxTo(v, k - 1)
         IN  IF RLt(v[b], v[k]) THEN k ELSE b

\* an argmax that keeps the last index holding the maximum
RECURSIVE ArgMaxLastTo(_, _)
ArgMaxLastTo(v, k) ==
    IF k = 1 THEN 1
    ELSE IF \A j \in 1..(k - 1) : RLe(v[j], v[k]) THEN k ELSE ArgMaxLastTo(v, k - 1)

ArgMaxLast(v) == ArgMaxLastTo(v, Len(v))

ArgMax(v) == ArgMaxTo(v, Len(v))

\* the frame of a generator that has not run yet.  residuals is bound
\* before the loop only when there is no loss; like best and the history
\* fields it is << >> or 0 until the first iteration sets it.
GenInit(n, m, y, loss) ==
    [i          |-> 0,
     coef       |-> ZeroVec(m),
     selected   |-> Array([j \in 1..m |-> FALSE]),
     y_pred     |-> ZeroVec(n),
     residuals  |-> IF loss = "none" THEN y ELSE << >>,
     best       |-> 0,
     refitted   |-> FALSE,
     sel_before |-> Array([j \in 1..m |-> FALSE]),
     res_used   |-> << >>,
     exhausted  |-> FALSE]

\* the columns of Kd picked by the mask, in index order: K[:, selected]
SubsetCols(Kd, selected) ==
    LET js == SelectSeq(Idx(Len(selected)), LAMBDA j : selected[j])
    IN  Array([p \in 1..Len(js) |-> Col(Kd, js[p])])

\* coef[selected] = values
Scatter(coef, selected, values) ==
    Array([j \in 1..Len(coef) |->
              IF selected[j]
              THEN values[Cardinality({k \in 1..j : selected[k]})]
              ELSE coef[j]])

\* a step that is the raw correlation, never divided by the squared norm
StepSizeUnnormalised(loss, dots, nrm, best, y, y_pred, column) ==
    Dot(column, VSub(y, y_pred))

\* the step of a line-search iteration
StepSize(loss, dots, nrm, best, y, y_pred, column) ==
    IF loss = "none" THEN RDiv(dots[best], nrm[best])
    ELSE LineSearch(y, y_pred, column)

\* scores that are never masked
MaskedScoresUnmasked(dots, selected, check_duplicates) ==
    Array([j \in 1..Len(dots) |-> RAbs(dots[j])])

\* abs_dots after the duplicate mask
MaskedScores(dots, selected, check_duplicates) ==
    Array([j \in 1..Len(dots) |->
              IF check_duplicates /\ selected[j] THEN NegInf ELSE RAbs(dots[j])])

\* one iteration of the loop body, up to its yield
GenNext(g, Kd, nrm, y, loss, n_refit, check_duplicates) ==
    LET i         == g.i + 1
        m         == Len(nrm)
        res1      == IF loss # "none" THEN NegativeGradient(y, g.y_pred)
                     ELSE g.residuals
        dots      == Array([j \in 1..m |-> RDiv(Dot(Col(Kd, j), res1), nrm[j])])
        abs_dots  == MaskedScores(dots, g.selected, check_duplicates)
        best      == ArgMax(abs_dots)
        selected  == [g.selected EXCEPT ![best] = TRUE]
    IN  IF n_refit # 0 /\ i % n_refit = 0
        THEN LET K_subset == SubsetCols(Kd, selected)
                 est      == LinearRegressionFit(K_subset, y)
                 y_pred   == EstimatorDecisionFunction(est, K_subset, Len(y))
             IN  [g EXCEPT !.i = i,
                           !.coef = Scatter(g.coef, selected, est.coef_),
                           !.selected = selected,
                           !.y_pred = y_pred,
                           !.residuals = IF loss = "none" THEN VSub(y, y_pred)
                                         ELSE res1,
                           !.best = best,
                           !.refitted = TRUE,
                           !.sel_before = g.selected,
                           !.res_used = res1]
        ELSE LET column == Col(Kd, best)
                 alpha  == StepSize(loss, dots, nrm, best, y, g.y_pred, column)
                 weighted_basis == VScale(alpha, column)
             IN  [g EXCEPT !.i = i,
                           !.coef = [g.coef EXCEPT ![best] = RAdd(@, alpha)],
                           !.selected = selected,
                           !.y_pred = VAdd(g.y_pred, weighted_basis),
                           !.residuals = IF loss = "none"
                                         THEN VSub(res1, weighted_basis)
                                         ELSE res1,
                           !.best = best,
                           !.refitted = FALSE,
                           !.sel_before = g.selected,
                           !.res_used = res1]

-----------------------------------------------------------------------------
(* Inputs.  Dictionaries are given by their columns; every column has a    *)
(* nonzero integer norm (a zero-norm column makes the code divide by zero, *)
(* which this model leaves out).                                           *)

Transpose(cols) ==
    Array([r \in 1..Len(cols[1]) |-> Array([j \in 1..Len(cols) |-> cols[j][r]])])

Dictionaries ==
    { RatMat(Transpose(cols)) : cols \in
        { << <<1, 0, 0, 0>>, <<0, 1, 0, 0>>, <<0, 0, 1, 0>>, <<0, 0, 0, 1>> >>,
          << <<1, 1, 1, 1>>, <<1, 1, -1, -1>>, <<1, 0, 0, 0>> >>,
          << <<0, 2, 0, 0>>, <<1, 1, 1, -1>>, <<0, 0, 0, 1>> >>,
          << <<2, 2, 2, 2>>, <<0, 1, 0, 0>>, <<1, -1, 1, 1>> >> } }

Targets ==
    { RatVec(v) : v \in
        { <<1, 0, 0, 0>>, <<1, 1, 0, 0>>, <<2, 1, 0, -1>>, <<0, 1, 3, 1>> } }

Losses == {"none", "squared"}

\* norms = np.sqrt(np.sum(K ** 2, axis=0))
ColumnNorms(Kd) ==
    Array([j \in 1..Len(Kd[1]) |->
              LET c == Col(Kd, j) IN Rat(Sqrt(Dot(c, c)[1]))])

\* a slice that always takes the first column
TargetColumnFirst(Ym, c) == Array([r \in 1..Len(Ym) |-> Ym[r][1]])

\* Y[:, c]
TargetColumn(Ym, c) == Array([r \in 1..Len(Ym) |-> Ym[r][c]])

\* y.reshape(-1, 1)
AsColumn(y) == Array([r \in 1..Len(y) |-> <<y[r]>>])

NoMatrix == << >>

-----------------------------------------------------------------------------
(* A single pursuit run: one _fit_generator driven to exhaustion.           *)

InitPursuit ==
    /\ pc = "pursuit"
    /\ K \in Dictionaries
    /\ \E y \in Targets : Y = AsColumn(y)
    /\ norms = ColumnNorms(K)
    /\ t_budget \in 0..Len(K[1])
    /\ \E l \in Losses, r \in 0..MaxRefit, d \in BOOLEAN :
          cfg = [n_nonzero_coefs |-> Rat(t_budget), loss |-> l, n_refit |-> r,
                 check_duplicates |-> d, n_validate |-> 1, epsilon |-> Zero,
                 validation |-> FALSE]
    /\ components_ = Idx(Len(K[1]))
    /\ gens = <<GenInit(Len(K), Len(K[1]), TargetColumn(Y, 1), cfg.loss)>>
    /\ results = << >>
    /\ n_iter = 0
    /\ best_score = NegInf
    /\ validation_scores = << >>
    /\ training_scores = << >>
    /\ iterations = << >>
    /\ coef_ = NoMatrix
    /\ snaps = << >>
    /\ stopped = FALSE
    /\ err = ""

\* it.next() that runs one iteration and yields
GenIter ==
    /\ pc = "pursuit"
    /\ gens[1].i < t_budget
    /\ gens' = <<GenNext(gens[1], K, norms, TargetColumn(Y, 1), cfg.loss,
                         cfg.n_refit, cfg.check_duplicates)>>
    /\ UNCHANGED <<pc, cfg, K, Y, norms, t_budget, components_, results, n_iter,
                   best_score, validation_scores, training_scores, iterations,
                   coef_, snaps, stopped, err>>

\* it.next() after the last iteration: the range is exhausted
GenStop ==
    /\ pc = "pursuit"
    /\ gens[1].i >= t_budget
    /\ gens' = <<[gens[1] EXCEPT !.exhausted = TRUE]>>
    /\ pc' = "pursuit_done"
    /\ UNCHANGED <<cfg, K, Y, norms, t_budget, components_, results, n_iter,
                   best_score, validation_scores, training_scores, iterations,
                   coef_, snaps, stopped, err>>

NextPursuit == GenIter \/ GenStop

SpecPursuit == InitPursuit /\ [][NextPursuit]_vars

-----------------------------------------------------------------------------
(* The fit of an estimator: KMPBase.__init__, _pre_fit, _fit with its two  *)
(* paths (_fit_multi, _fit_multi_with_validation) and _post_fit.           *)

\* dictionaries and target matrices of the whole-fit specification
FitDictionaries ==
    { RatMat(Transpose(cols)) : cols \in
        { << <<1, 1, 1, 1>>, <<1, 1, -1, -1>>, <<1, 0, 0, 0>> >>,
          << <<1, 0, 0, 0>>, <<0, 1, 0, 0>>, <<0, 0, 1, 0>>, <<0, 0, 0, 1>> >> } }

TargetMatrices ==
    { RatMat(M) : M \in
        { << <<2, 1>>, <<1, 1>>, <<0, 3>>, <<-1, 0>> >> } }

\* n_nonzero_coefs as given to the constructor: negative, zero, a fraction
\* of the components (quarters are exact in binary floating point) or a count
Budgets ==
    { <<-1, 1>>, <<0, 1>>, <<1, 4>>, <<1, 2>>, <<1, 1>>, <<2, 1>>, <<5, 1>> }

Epsilons == { Zero, <<3, 2>> }

\* what the scoring function may return
ValidationScoreValues == { Rat(-2), Rat(0), Rat(1) }

TrainingScoreValues == { Rat(0), Rat(1) }

Init ==
    /\ pc = "new"
    /\ K \in FitDictionaries
    /\ Y \in TargetMatrices
    /\ \E b \in Budgets, l \in Losses, r \in 0..MaxRefit, d \in BOOLEAN,
          nv \in 1..MaxValidate, e \in Epsilons, v \in BOOLEAN :
          \* the four-column dictionary is drawn with line-search runs only
          /\ Len(K[1]) > 3 => r = 0
          /\ cfg = [n_nonzero_coefs |-> b, loss |-> l, n_refit |-> r,
                    check_duplicates |-> d, n_validate |-> nv, epsilon |-> e,
                    validation |-> v]
    /\ norms = << >>
    /\ t_budget = 0
    /\ components_ = << >>
    /\ gens = << >>
    /\ results = << >>
    /\ n_iter = 0
    /\ best_score = NegInf
    /\ validation_scores = << >>
    /\ training_scores = << >>
    /\ iterations = << >>
    /\ coef_ = NoMatrix
    /\ snaps = << >>
    /\ stopped = FALSE
    /\ err = ""

\* KMPBase.__init__: the only check is n_nonzero_coefs < 0
ConstructorRejects(n_nonzero_coefs) == RLt(n_nonzero_coefs, Zero)

Construct ==
    /\ pc = "new"
    /\ IF ConstructorRejects(cfg.n_nonzero_coefs)
       THEN pc' = "failed" /\ err' = "AttributeError: n_nonzero_coefs should be > 0."
       ELSE pc' = "constructed" /\ err' = err
    /\ UNCHANGED <<cfg, K, Y, norms, t_budget, components_, gens, results, n_iter,
                   best_score, validation_scores, training_scores, iterations,
                   coef_, snaps, stopped>>

\* int(x) of a nonnegative rational
IntOf(x) == x[1] \div x[2]

\* _pre_fit: a budget in (0, 1] is a fraction of the components
ResolveBudget(n_nonzero_coefs, m) ==
    IF RLt(Zero, n_nonzero_coefs) /\ RLe(n_nonzero_coefs, Rat(1))
    THEN Rat(IntOf(RMul(n_nonzero_coefs, Rat(m))))
    ELSE n_nonzero_coefs

\* _pre_fit: n_nonzero_coefs > self.components_.shape[0]
PreFitRejects(n, m) == RLt(Rat(m), n)

\* fit() up to the call of _fit: _pre_fit, then the generators of the chosen path
PreFit ==
    /\ pc = "constructed"
    /\ LET m == Len(K[1])
           n == ResolveBudget(cfg.n_nonzero_coefs, m)
       IN  /\ components_' = Idx(m)
           /\ IF PreFitRejects(n, m)
              THEN /\ pc' = "failed"
                   /\ err' = "AttributeError: n_nonzero_coefs cannot be bigger than n_components."
                   /\ UNCHANGED <<norms, t_budget, gens, results, n_iter>>
              ELSE /\ norms' = ColumnNorms(K)
                   /\ t_budget' = IntOf(n)
                   /\ gens' = Array([c \in 1..Len(Y[1]) |->
                                 GenInit(Len(K), m, TargetColumn(Y, c), cfg.loss)])
                   /\ results' = Array([c \in 1..Len(Y[1]) |-> << >>])
                   /\ n_iter' = IF cfg.validation THEN 1 ELSE n_iter
                   /\ pc' = IF cfg.validation THEN "validation" ELSE "multi"
                   /\ err' = err
    /\ UNCHANGED <<cfg, K, Y, best_score, validation_scores, training_scores,
                   iterations, coef_, snaps, stopped>>

\* the next iteration of column c's generator
ColumnNext(c) ==
    GenNext(gens[c], K, norms, TargetColumn(Y, c), cfg.loss, cfg.n_refit,
            cfg.check_duplicates)

(* _fit_multi: one _fit_last call per target column, run by the workers of *)
(* Parallel in any order.                                                  *)

\* _fit_last's loop takes one more pair from its generator
WorkerNext(c) ==
    /\ pc = "multi"
    /\ results[c] = << >>
    /\ gens[c].i < t_budget
    /\ gens' = [gens EXCEPT ![c] = ColumnNext(c)]
    /\ UNCHANGED <<pc, cfg, K, Y, norms, t_budget, components_, results, n_iter,
                   best_score, validation_scores, training_scores, iterations,
                   coef_, snaps, stopped, err>>

\* what _fit_last returns once its loop is over: the coef of the last pair
FitLastReturn(g) == g.coef

\* _fit_last's loop ends and it returns coef, a name the loop never bound
\* when the generator yielded nothing
WorkerReturn(c) ==
    /\ pc = "multi"
    /\ results[c] = << >>
    /\ gens[c].i >= t_budget
    /\ gens' = [gens EXCEPT ![c].exhausted = TRUE]
    /\ IF gens[c].i = 0
       THEN /\ pc' = "failed"
            /\ err' = "UnboundLocalError: coef"
            /\ UNCHANGED results
       ELSE /\ results' = [results EXCEPT ![c] = FitLastReturn(gens[c])]
            /\ UNCHANGED <<pc, err>>
    /\ UNCHANGED <<cfg, K, Y, norms, t_budget, components_, n_iter, best_score,
                   validation_scores, training_scores, iterations, coef_, snaps,
                   stopped>>

\* self.coef_ = np.array(coef) once every call has returned
FitMultiDone ==
    /\ pc = "multi"
    /\ \A c \in 1..Len(results) : results[c] # << >>
    /\ coef_' = results
    /\ pc' = "postfit"
    /\ UNCHANGED <<cfg, K, Y, norms, t_budget, components_, gens, results, n_iter,
                   best_score, validation_scores, training_scores, iterations,
                   snaps, stopped, err>>

(* _fit_multi_with_validation: the generators are stepped in lockstep.     *)

\* a convergence test that already fires at the second checkpoint
ShouldStopAfterTwo(scores, its, epsilon) ==
    /\ Len(its) > 1
    /\ RLt(Zero, epsilon)
    /\ RLt(RAbs(RDiv(RSub(scores[Len(scores)], scores[Len(scores) - 1]),
                     scores[1])),
           epsilon)

\* the convergence test after a checkpoint was recorded
ShouldStop(scores, its, epsilon) ==
    /\ Len(its) > 2
    /\ RLt(Zero, epsilon)
    /\ RLt(RAbs(RDiv(RSub(scores[Len(scores)], scores[Len(scores) - 1]),
                     scores[1])),
           epsilon)

\* a comparison that also takes a score equal to the best one
ImprovesOrTies(validation_score, best) == RLe(best, validation_score)

\* validation_score > best_score
Improves(validation_score, best) == RLt(best, validation_score)

\* np.array(coef) of the pairs the generators yielded
StackCoef(gs) == Array([c \in 1..Len(gs) |-> gs[c].coef])

\* a loop iteration whose n_iter is no multiple of n_validate
ValidationStep ==
    /\ pc = "validation"
    /\ gens[1].i < t_budget
    /\ n_iter % cfg.n_validate # 0
    /\ gens' = Array([c \in 1..Len(gens) |-> ColumnNext(c)])
    /\ n_iter' = n_iter + 1
    /\ UNCHANGED <<pc, cfg, K, Y, norms, t_budget, components_, results,
                   best_score, validation_scores, training_scores, iterations,
                   coef_, snaps, stopped, err>>

\* a loop iteration that validates; the two scores are what _score returns
ValidationCheckpoint ==
    /\ pc = "validation"
    /\ gens[1].i < t_budget
    /\ n_iter % cfg.n_validate = 0
    /\ gens' = Array([c \in 1..Len(gens) |-> ColumnNext(c)])
    /\ snaps' = Append(snaps, StackCoef(gens'))
    /\ iterations' = Append(iterations, n_iter)
    /\ \E validation_score \in ValidationScoreValues,
          training_score \in TrainingScoreValues :
          /\ IF Improves(validation_score, best_score)
             THEN coef_' = StackCoef(gens') /\ best_score' = validation_score
             ELSE UNCHANGED <<coef_, best_score>>
          /\ validation_scores' = Append(validation_scores, validation_score)
          /\ training_scores' = Append(training_scores, training_score)
    /\ IF ShouldStop(validation_scores', iterations', cfg.epsilon)
       THEN pc' = "postfit" /\ stopped' = TRUE /\ n_iter' = n_iter
       ELSE pc' = pc /\ stopped' = stopped /\ n_iter' = n_iter + 1
    /\ UNCHANGED <<cfg, K, Y, norms, t_budget, components_, results, err>>

\* the first generator raises StopIteration: the loop is left
ValidationExhausted ==
    /\ pc = "validation"
    /\ gens[1].i >= t_budget
    /\ gens' = [gens EXCEPT ![1].exhausted = TRUE]
    /\ pc' = "postfit"
    /\ UNCHANGED <<cfg, K, Y, norms, t_budget, components_, results, n_iter,
                   best_score, validation_scores, training_scores, iterations,
                   coef_, snaps, stopped, err>>

(* _post_fit                                                               *)

\* a mask that looks at the first target row only
UsedBasisFirstRow(coef) ==
    Array([j \in 1..Len(coef[1]) |-> coef[1][j] # Zero])

\* np.sum(coef_ != 0, axis=0, dtype=bool): any nonzero entry in the column
UsedBasis(coef) ==
    Array([j \in 1..Len(coef[1]) |-> \E i \in 1..Len(coef) : coef[i][j] # Zero])

\* v[mask]
Compress(v, mask) ==
    LET js == SelectSeq(Idx(Len(mask)), LAMBDA j : mask[j])
    IN  Array([p \in 1..Len(js) |-> v[js[p]]])

\* coef_[:, used_basis]
PruneCoef(coef, used_basis) ==
    Array([i \in 1..Len(coef) |-> Compress(coef[i], used_basis)])

\* _post_fit; self.coef_ is missing when no checkpoint ever stored it
PostFit ==
    /\ pc = "postfit"
    /\ IF coef_ = NoMatrix
       THEN /\ pc' = "failed"
            /\ err' = "AttributeError: coef_"
            /\ UNCHANGED <<coef_, components_>>
       ELSE /\ coef_' = PruneCoef(coef_, UsedBasis(coef_))
            /\ components_' = Compress(components_, UsedBasis(coef_))
            /\ pc' = "done"
            /\ err' = err
    /\ UNCHANGED <<cfg, K, Y, norms, t_budget, gens, results, n_iter, best_score,
                   validation_scores, training_scores, iterations, snaps, stopped>>

Next ==
    \/ Construct
    \/ PreFit
    \/ \E c \in 1..Len(gens) : WorkerNext(c)
    \/ \E c \in 1..Len(gens) : WorkerReturn(c)
    \/ FitMultiDone
    \/ ValidationStep
    \/ ValidationCheckpoint
    \/ ValidationExhausted
    \/ PostFit

Spec == Init /\ [][Next]_vars

-----------------------------------------------------------------------------
(* Properties of a single pursuit run (SpecPursuit).                        *)

\* the frame of a run of i iterations
RECURSIVE PursuitAfter(_, _, _, _, _, _, _)
PursuitAfter(Kd, nrm, y, loss, n_refit, check_duplicates, i) ==
    IF i = 0 THEN GenInit(Len(Kd), Len(nrm), y, loss)
    ELSE GenNext(PursuitAfter(Kd, nrm, y, loss, n_refit, check_duplicates, i - 1),
                 Kd, nrm, y, loss, n_refit, check_duplicates)

NonZero(coef) == {j \in 1..Len(coef) : coef[j] # Zero}

Selected(mask) == {j \in 1..Len(mask) : mask[j]}

RunTarget == [r \in 1..Len(Y) |-> Y[r][1]]

RunOver == pc = "pursuit_done"

\* C5 as stated: after a run of t iterations without refitting, exactly t
\* distinct basis indices have a nonzero coefficient when duplicate selection
\* is disallowed, and at most t when it is allowed.
C5_ExactlyTNonzero ==
    (RunOver /\ cfg.n_refit = 0) =>
        IF cfg.check_duplicates
        THEN Cardinality(NonZero(gens[1].coef)) = t_budget
        ELSE Cardinality(NonZero(gens[1].coef)) <= t_budget

\* C5 amended: after a run of t iterations without refitting, at most t
\* distinct basis indices have a nonzero coefficient, and they are among the
\* selected ones; when duplicate selection is disallowed exactly t distinct
\* indices are selected (a selected index keeps a zero coefficient when its
\* step is zero).
C5_AtMostTNonzero ==
    (RunOver /\ cfg.n_refit = 0) =>
        /\ Cardinality(NonZero(gens[1].coef)) <= t_budget
        /\ NonZero(gens[1].coef) \subseteq Selected(gens[1].selected)
        /\ cfg.check_duplicates =>
              Cardinality(Selected(gens[1].selected)) = t_budget

\* a run without duplicates that ends with fewer than t nonzero coefficients
C5_Witness ==
    /\ RunOver
    /\ cfg.n_refit = 0
    /\ cfg.check_duplicates
    /\ t_budget >= 2
    /\ Cardinality(Selected(gens[1].selected)) = t_budget
    /\ Cardinality(NonZero(gens[1].coef)) < t_budget
    /\ Cardinality(NonZero(gens[1].coef)) > 0

OtherLoss(loss) == IF loss = "none" THEN "squared" ELSE "none"

ScoreLt(r, j, k) ==
    RLt(RMul(RAbs(Dot(Col(K, j), r)), norms[k]),
        RMul(RAbs(Dot(Col(K, k), r)), norms[j]))

\* C8: with duplicate selection disallowed (and t <= m), the index chosen at
\* iteration i was not in the mask before, the mask holds exactly i indices
\* after it, and the chosen index is the lowest one that attains the largest
\* |correlation| among the indices not selected before.
C8_NoIndexSelectedTwice ==
    (cfg.check_duplicates /\ gens[1].i >= 1) =>
        LET g    == gens[1]
            free == {j \in 1..Len(norms) : ~g.sel_before[j]}
        IN  /\ g.best \in free
            /\ Selected(g.selected) = Selected(g.sel_before) \cup {g.best}
            /\ Cardinality(Selected(g.selected)) = g.i
            /\ \A j \in free : ~ScoreLt(g.res_used, g.best, j)
            /\ \A j \in free : j < g.best => ScoreLt(g.res_used, j, g.best)

\* a third iteration without duplicates where a later free index tied with
\* the chosen one
C8_Witness ==
    /\ cfg.check_duplicates
    /\ gens[1].i = 3
    /\ \E j \in 1..Len(norms) :
          /\ j > gens[1].best
          /\ ~gens[1].sel_before[j]
          /\ ~ScoreLt(gens[1].res_used, j, gens[1].best)
          /\ Dot(Col(K, j), gens[1].res_used) # Zero

\* C9: after every iteration, line search or refit, the emitted prediction
\* is the dictionary times the emitted coefficient vector, and every index
\* with a nonzero coefficient is in the selection mask.
C9_PredictionIsKTimesCoef ==
    /\ gens[1].y_pred = MatVec(K, gens[1].coef)
    /\ NonZero(gens[1].coef) \subseteq Selected(gens[1].selected)

\* sum((y - prediction)^2)
SquaredError(g) == LET r == VSub(RunTarget, g.y_pred) IN Dot(r, r)

\* C10: in a run of line-search updates only (n_refit = 0), with either loss,
\* the squared training error after an iteration is at most the squared
\* training error before it.
C10_ErrorNeverIncreases ==
    [][(cfg.n_refit = 0 /\ gens'[1].i = gens[1].i + 1) =>
          RLe(SquaredError(gens'[1]), SquaredError(gens[1]))]_vars

\* two line-search iterations done, the error lower than at the start and
\* not yet zero
C10_Witness ==
    /\ cfg.n_refit = 0
    /\ gens[1].i >= 2
    /\ RLt(Zero, SquaredError(gens[1]))
    /\ RLt(SquaredError(gens[1]), Dot(RunTarget, RunTarget))

-----------------------------------------------------------------------------
(* Properties of the whole fit (Spec).                                      *)

AfterLoop == pc \in {"postfit", "done"} \/ (pc = "failed" /\ Len(gens) > 0)

\* the checkpoint the claim names: the earliest one with the highest score
IsEarliestBest(scores, k) ==
    /\ k \in 1..Len(scores)
    /\ \A j \in 1..Len(scores) : RLe(scores[j], scores[k])
    /\ \A j \in 1..(k - 1) : RLt(scores[j], scores[k])

\* C1: with validation, the stored coefficient matrix is the snapshot taken
\* at the checkpoint with the highest recorded validation score, the earliest
\* one on ties: during the loop and when it is over, and (pruned) after
\* _post_fit.
C1_StoredIsBestSnapshot ==
    (cfg.validation /\ Len(validation_scores) > 0) =>
        \E k \in 1..Len(validation_scores) :
            /\ IsEarliestBest(validation_scores, k)
            /\ best_score = validation_scores[k]
            /\ pc \in {"validation", "postfit"} => coef_ = snaps[k]
            /\ pc = "done" => coef_ = PruneCoef(snaps[k], UsedBasis(snaps[k]))

\* the loop is over, the best checkpoint is neither the last one nor alone
\* with its score, and the stored matrix differs from the last snapshot
C1_Witness ==
    /\ cfg.validation
    /\ pc = "postfit"
    /\ Len(validation_scores) >= 3
    /\ \E k \in 1..(Len(validation_scores) - 1) :
          /\ IsEarliestBest(validation_scores, k)
          /\ \E j \in (k + 1)..Len(validation_scores) :
                validation_scores[j] = validation_scores[k] /\ snaps[j] # snaps[k]
          /\ coef_ = snaps[k]
    /\ coef_ # snaps[Len(snaps)]

\* |v_last - v_previous| / |v_first| < epsilon, by cross-multiplication; a
\* zero v_first makes the quotient an infinity or nan, which is not < epsilon
RelativeChangeBelow(scores, epsilon) ==
    LET last  == scores[Len(scores)]
        prev  == scores[Len(scores) - 1]
        first == scores[1]
    IN  /\ first # Zero
        /\ RLt(RAbs(RSub(last, prev)), RMul(epsilon, RAbs(first)))

StopCondition ==
    /\ RLt(Zero, cfg.epsilon)
    /\ Len(validation_scores) >= 3
    /\ RelativeChangeBelow(validation_scores, cfg.epsilon)

\* C2: in the validation path the fit stops at a checkpoint exactly when
\* epsilon > 0, at least 3 checkpoints are recorded and
\* |v_last - v_previous| / |v_first| < epsilon; otherwise the loop ends when
\* every column has done t iterations.  The checkpoints are the iterations
\* that are multiples of n_validate.
C2_EarlyStopRule ==
    (cfg.validation /\ Len(gens) > 0) =>
        /\ stopped <=> StopCondition
        /\ stopped => (AfterLoop /\ gens[1].i = iterations[Len(iterations)])
        /\ (AfterLoop /\ ~stopped) => \A c \in 1..Len(gens) : gens[c].i = t_budget
        /\ \A c \in 1..Len(gens) : gens[c].i = gens[1].i /\ gens[c].i <= t_budget
        /\ Len(iterations) = gens[1].i \div cfg.n_validate
        /\ \A k \in 1..Len(iterations) : iterations[k] = k * cfg.n_validate
        /\ Len(validation_scores) = Len(iterations)
        /\ Len(training_scores) = Len(iterations)

\* the loop was left at the third checkpoint, before the budget was used up,
\* after a second checkpoint that did not end it
C2_Witness ==
    /\ cfg.validation
    /\ stopped
    /\ Len(iterations) = 3
    /\ gens[1].i < t_budget
    /\ validation_scores[3] # validation_scores[2]
    /\ validation_scores[2] = validation_scores[1]

\* C3: a budget that passes the constructor and _pre_fit reaches the pursuit
\* loop as a positive integer t <= m, and a budget that is negative or
\* exceeds m is rejected before any pursuit iteration runs.
C3_BudgetIsPositiveInteger ==
    /\ pc \in {"multi", "validation", "postfit", "done"} =>
          (t_budget >= 1 /\ t_budget <= Len(K[1]))
    /\ (RLt(cfg.n_nonzero_coefs, Zero) \/ RLt(Rat(Len(K[1])), cfg.n_nonzero_coefs)) =>
          (pc \in {"new", "constructed", "failed"} /\ gens = << >>)

ColumnOf(c) == Array([r \in 1..Len(Y) |-> Y[r][c]])

\* column c pursued alone for i iterations
Alone(c, i) ==
    PursuitAfter(K, norms, ColumnOf(c), cfg.loss, cfg.n_refit,
                 cfg.check_duplicates, i)

-----------------------------------------------------------------------------
(* _post_fit on any coefficient matrix (SpecPrune).                         *)

CoefficientValues == { Rat(-1), Rat(0), Rat(2) }

CoefficientMatrices ==
    UNION { [1..c -> [1..3 -> CoefficientValues]] : c \in 1..2 }

InitPrune ==
    /\ pc = "postfit"
    /\ \E M \in CoefficientMatrices : coef_ = Array([i \in 1..Len(M) |-> Array(M[i])])
    /\ components_ = Idx(3)
    /\ cfg = [n_nonzero_coefs |-> Rat(3), loss |-> "none", n_refit |-> 0,
              check_duplicates |-> FALSE, n_validate |-> 1, epsilon |-> Zero,
              validation |-> FALSE]
    /\ K = NoMatrix
    /\ Y = NoMatrix
    /\ norms = << >>
    /\ t_budget = 3
    /\ gens = << >>
    /\ results = << >>
    /\ n_iter = 0
    /\ best_score = NegInf
    /\ validation_scores = << >>
    /\ training_scores = << >>
    /\ iterations = << >>
    /\ snaps = << >>
    /\ stopped = FALSE
    /\ err = ""

SpecPrune == InitPrune /\ [][PostFit]_vars

\* C4: after _post_fit of a c x m matrix and m components, the kept
\* components are exactly the basis indices with a nonzero coefficient in at
\* least one row, in their original order; the matrix has as many columns as
\* there are components, and the kept columns hold their old values.
C4_PruneKeepsUsedColumns ==
    [][(pc = "postfit" /\ pc' = "done") =>
          LET used == {j \in 1..Len(components_) :
                          \E i \in 1..Len(coef_) : coef_[i][j] # Zero}
          IN  /\ {components_'[p] : p \in 1..Len(components_')}
                    = {components_[j] : j \in used}
              /\ Len(components_') = Cardinality(used)
              /\ \A p, q \in 1..Len(components_') :
                    p < q => components_'[p] < components_'[q]
              /\ Len(coef_') = Len(coef_)
              /\ \A i \in 1..Len(coef_') :
                    /\ Len(coef_'[i]) = Len(components_')
                    /\ \A p \in 1..Len(components_') :
                          coef_'[i][p] = coef_[i][components_'[p]]]_vars

\* a pruned model of two target rows that kept two of three components, one
\* of them used by the second row only
C4_Witness ==
    /\ pc = "done"
    /\ Len(coef_) = 2
    /\ components_ = <<1, 3>>
    /\ coef_[1][2] = Zero
    /\ coef_[2][2] # Zero

=============================================================================
